---- MODULE Spec2Model ----
(***************************************************************************)
(* The chat view of ict-mahagedara as a state machine.                     *)
(*                                                                         *)
(* The repository holds two copies of the chat page:                       *)
(*   frontend/ict_mahagedara/src/pages/Chat.tsx  the mode-aware view       *)
(*       (Session / Stateless buttons, logout, a welcome entry on init)    *)
(*   ict_mahagedara/src/pages/Chat.tsx           the mode-less view        *)
(*       (always 'session', no welcome entry)                              *)
(* and one services/api.ts.  The variable view says which page is mounted. *)
(*                                                                         *)
(* A React handler runs to its first await without interruption, so each   *)
(* action below is one such run: an event handler up to the fetch it       *)
(* dispatches, or the continuation that runs when a fetch settles.  State  *)
(* setters called on an unmounted component (after navigate('/login'))     *)
(* are dropped by React.                                                   *)
(***************************************************************************)
EXTENDS Integers, Sequences, FiniteSets, TLC

\* ---------------------------------------------------------------- bounds
\* Longest transcript the model lets a conversation grow to.
MaxMsgs == 4
\* Most createSession requests in flight at once.
MaxInits == 2

\* ------------------------------------------------------------ value sets
\* JavaScript null; `${null}` renders as the text "null".
Null == "null"
\* Session identifiers the remote service may return.
Ids == {"S1", "S2"}
Views == {"frontend", "root"}
Modes == {"session", "stateless"}
\* What the user may have typed, character by character.
InputTexts ==
  { <<>>,
    <<" ", " ", " ">>,
    <<"h", "e", "l", "l", "o">>,
    <<" ", "2", "+", "2", "?", " ">> }
\* Assistant texts the remote service may answer with.
ReplyTexts == {"Hi!"}
\* How a send can fail: the fetch rejects, or the status is not ok and the
\* error body carries a detail or none, or is not JSON at all.
SendFailures ==
  { [kind |-> "network", status |-> "none", detail |-> ""],
    [kind |-> "status", status |-> "401", detail |-> ""],
    [kind |-> "status", status |-> "404", detail |-> "Session not found"],
    [kind |-> "body", status |-> "502", detail |-> ""] }
\* How createSession can fail: the fetch rejects or the status is not ok.
InitFailures == {"none", "401"}

VARIABLES
  view,          \* which Chat page is mounted
  token,         \* localStorage holds 'access_token'
  route,         \* "chat" while the view is mounted, "login" after navigate('/login')
  authPc,        \* checkAuth: "mount" (effect not run yet), "fetching", "done"
  user,          \* setUser has stored the current user
  sessionId,     \* useState<string | null>
  currentMode,   \* useState<'session' | 'stateless'>
  messages,      \* useState<Message[]>
  inputMessage,  \* useState('') as a sequence of characters
  isLoading,     \* useState(false)
  inits,         \* createSession requests in flight, oldest first
  sends,         \* sendMessage requests in flight, oldest first
  lastOp,        \* history: the handler or continuation that ran last
  scen,          \* history: monitors of the scenarios the properties name
  profileLoading, \* Profile: the loading state, useState(true)
  successMessage, \* Profile: useState('')
  errorMessage,   \* Profile: useState('')
  timers,         \* Profile: pending setTimeout callbacks, oldest first
  requests        \* Profile: profileApi requests in flight, oldest first

\* The state of the Profile page.
profileVars == << profileLoading, successMessage, errorMessage, timers, requests >>

\* The state of the Chat page and the monitors of its scenarios.
chatVars ==
  << sessionId, currentMode, messages, inputMessage, isLoading, inits, sends, scen >>

vars ==
  << view, token, route, authPc, user, sessionId, currentMode, messages,
     inputMessage, isLoading, inits, sends, lastOp, scen,
     profileLoading, successMessage, errorMessage, timers, requests >>

\* ----------------------------------------------------------- pure helpers
IsSpace(c) == c \in {" ", "\t", "\n"}

RECURSIVE TrimStart(_)
TrimStart(s) ==
  IF s = <<>> THEN s
  ELSE IF IsSpace(Head(s)) THEN TrimStart(Tail(s)) ELSE s

RECURSIVE TrimEnd(_)
TrimEnd(s) ==
  IF s = <<>> THEN s
  ELSE IF IsSpace(s[Len(s)]) THEN TrimEnd(SubSeq(s, 1, Len(s) - 1)) ELSE s

\* String.prototype.trim
Trim(s) == TrimEnd(TrimStart(s))

\* The characters of a text as one string.
RECURSIVE Str(_)
Str(s) == IF s = <<>> THEN "" ELSE Head(s) \o Str(Tail(s))

Remove(seq, i) == SubSeq(seq, 1, i - 1) \o SubSeq(seq, i + 1, Len(seq))

\* ------------------------------------------------------------- transcript
WelcomeText ==
  "Hello! I'm Prasad K. Gamage, your AI learning assistant. How can I help you today?"
StatelessText == "Stateless mode activated. Each message will be independent."
InitErrorText == "Failed to initialize chat session"
\* The source's prefix starts with the cross mark U+274C, written [X] here.
ErrorPrefix == "[X] Error: "

Entry(role, content, isMarkdown) ==
  [role |-> role, content |-> content, isMarkdown |-> isMarkdown]

\* Mutation: the isMarkdown argument is dropped.
addMessage_DropsFlag(prev, role, content, isMarkdown) ==
  Append(prev, Entry(role, content, FALSE))

addMessage(prev, role, content, isMarkdown) ==
  Append(prev, Entry(role, content, isMarkdown))

\* Mutation: the message is shown without the error prefix.
showError_NoPrefix(prev, message) ==
  addMessage(prev, "assistant", message, FALSE)

\* Mutation: the failure is swallowed.
showError_Silent(prev, message) == prev

\* Mutation: the error entry is flagged as formatted.
showError_Markdown(prev, message) ==
  addMessage(prev, "assistant", ErrorPrefix \o message, TRUE)

showError(prev, message) ==
  addMessage(prev, "assistant", ErrorPrefix \o message, FALSE)

\* ------------------------------------------------------------ services/api
\* Mutation: without an identifier the request falls back to the
\* stateless endpoint.
Endpoint_FallsBack(mode, sid) ==
  IF mode = "session" /\ sid # Null THEN "/chat/session/" \o sid
  ELSE "/chat/stateless"

\* chatApi.sendMessage: the endpoint the request goes to.
Endpoint(mode, sid) ==
  IF mode = "session" THEN "/chat/session/" \o sid ELSE "/chat/stateless"

\* chatApi.sendMessage: the message of the Error it throws.
\* (fetch rejects with a TypeError, response.json() of a body that is not
\* JSON with a SyntaxError; their texts are the engine's.)
ErrorMessage(f) ==
  IF f.kind = "network" THEN "Failed to fetch"
  ELSE IF f.kind = "body" THEN "Unexpected token"
  ELSE IF f.detail # "" THEN f.detail ELSE "Failed to send message"

\* ------------------------------------------------------------- the view
Mounted == route = "chat"

\* The text input's disabled attribute.
InputDisabled == isLoading

\* The mode handleSubmit sends with.
SendMode == IF view = "frontend" THEN currentMode ELSE "session"

\* Mutation: the early return forgets the isLoading test.
SubmitRejected_IgnoresLoading(input, loading) == Trim(input) = <<>>

\* Mutation: the early return tests the raw text, not the trimmed one.
SubmitRejected_NoTrim(input, loading) == input = <<>> \/ loading

\* handleSubmit's early return.
SubmitRejected(input, loading) == Trim(input) = <<>> \/ loading

\* Mutation: the identifier of the response is never stored.
AdoptSession_Never(mode, respSid, cur) == cur

\* Mutation: the identifier is stored whatever the mode (the mode-less
\* view's test, used in the mode-aware view).
AdoptSession_AnyMode(mode, respSid, cur) ==
  IF respSid # Null THEN respSid ELSE cur

\* handleSubmit, on a response: the session identifier to keep.
AdoptSession(mode, respSid, cur) ==
  IF mode = "session" /\ respSid # Null THEN respSid ELSE cur

\* Mutation: setIsLoading(true) is missing.
LoadingOnSubmit_Missing(loading) == loading

\* handleSubmit: setIsLoading(true).
LoadingOnSubmit(loading) == TRUE

\* Mutation: setIsLoading(false) is missing.
LoadingOnSettle_Missing(loading) == loading

\* handleSubmit's finally block: setIsLoading(false).
LoadingOnSettle(loading) == FALSE

\* Mutation: setSessionId(null) is missing.
SessionAfterStateless_Keeps(cur) == cur

\* handleModeChange('stateless'): setSessionId(null).
SessionAfterStateless(cur) == Null

\* Mutation: setMessages([]) is missing.
ClearedTranscript_Keeps(prev) == prev

\* handleModeChange: setMessages([]).
ClearedTranscript(prev) == <<>>

\* Mutation: a failed send gives the session up.
SessionAfterSendFailure_Clears(cur) == Null

\* handleSubmit's catch block: the identifier is not touched.
SessionAfterSendFailure(cur) == cur

\* Mutation: the rejection reaches checkAuth's catch block, which removes
\* the credential.
CredentialAfterInitFailure_Removed(cur) == FALSE

\* initSession's catch block swallows the rejection: checkAuth's catch block
\* does not run and localStorage keeps 'access_token'.
CredentialAfterInitFailure(cur) == cur

\* initSession's catch block leaves sessionId as it is.
SessionAfterInitFailure(cur) == cur

\* Mutation: no view appends the welcome entry.
TranscriptAfterInit_NoWelcome(prev) == prev

\* Mutation: the welcome entry replaces the transcript.
TranscriptAfterInit_Replaces(prev) ==
  << Entry("assistant", WelcomeText, FALSE) >>

\* Mutation: a new session starts the transcript afresh.
TranscriptAfterInit_Fresh(prev) ==
  IF view = "frontend" THEN << Entry("assistant", WelcomeText, FALSE) >>
  ELSE <<>>

\* initSession, on success: the transcript.
TranscriptAfterInit(prev) ==
  IF view = "frontend" THEN addMessage(prev, "assistant", WelcomeText, FALSE)
  ELSE prev

\* Mutation: the request is dispatched again at once.
DispatchInit_Twice(pending, origin) ==
  [i \in DOMAIN pending |-> [pending[i] EXCEPT !.latest = "stale"]]
    \o << [latest |-> "stale", origin |-> origin, auth |-> token],
          [latest |-> "latest", origin |-> origin, auth |-> token] >>

\* A createSession request as dispatched now; it becomes the latest one.
DispatchInit(pending, origin) ==
  Append([i \in DOMAIN pending |-> [pending[i] EXCEPT !.latest = "stale"]],
         [latest |-> "latest", origin |-> origin, auth |-> token])

\* Entries that requests in flight will still append.
PendingAppends ==
  Len(inits) + Len(sends) + (IF authPc = "fetching" THEN 1 ELSE 0)

\* ------------------------------------------------------------- monitors
\* submit("hello") after a successful initialization "S1", answered "Hi!".
Scenario10 ==
  << <<"createSession", "ok", "mount", "latest", "S1">>,
     <<"handleSubmit", "accepted", "hello">>,
     <<"sendMessage", "ok", "session", "S1", "Hi!">> >>

\* initializeSession fails at mount, then submit("hello") is rejected.
Scenario11 ==
  << <<"createSession", "fail", "mount", "latest">>,
     <<"handleSubmit", "accepted", "hello">>,
     <<"sendMessage", "fail", "session">> >>

\* A switch to Stateless, then submit("2+2?") fails with a network error.
Scenario12 ==
  << <<"handleModeChange", "stateless">>,
     <<"handleSubmit", "accepted", "2+2?">>,
     <<"sendMessage", "fail", "stateless", "Failed to fetch", "network">> >>

\* A submit is accepted, then Session mode is selected while that send is
\* in flight, then the initialization of that switch succeeds.
Scenario25 ==
  << <<"handleSubmit", "accepted">>,
     <<"handleModeChange", "session">>,
     <<"createSession", "ok", "switch", "latest">> >>

\* Events that are no step of a scenario and do not break one.
Neutral(ev) ==
  \/ ev[1] = "onChange"
  \/ ev = <<"checkAuth", "dispatched">>
  \/ ev = <<"getCurrentUser", "ok">>

\* A step of a scenario names the leading fields of the event it stands for.
Matches(step, ev) ==
  Len(ev) >= Len(step) /\ SubSeq(ev, 1, Len(step)) = step

Advance(k, scenario, ev) ==
  IF Neutral(ev) THEN k
  ELSE IF k >= 0 /\ k < Len(scenario) /\ Matches(scenario[k + 1], ev) THEN k + 1
  ELSE -1

\* A scenario that may start at any time, with its first step.
AdvanceFrom(k, scenario, ev) ==
  IF Neutral(ev) THEN k
  ELSE IF Matches(scenario[1], ev) THEN 1
  ELSE IF k >= 1 /\ k < Len(scenario) /\ Matches(scenario[k + 1], ev) THEN k + 1
  ELSE 0

\* The identifier adopted from a send's response while the view is mounted
\* in Session mode, until a mode switch or a session initialization sets
\* the handle again.
Adopted(cur, ev) ==
  IF /\ ev[1] = "sendMessage" /\ ev[2] = "ok" /\ ev[3] = "session"
     /\ ev[4] # Null /\ ev[4] # sessionId
     /\ Mounted /\ SendMode = "session"
    THEN ev[4]
  ELSE IF ev[1] = "handleModeChange" \/ (ev[1] = "createSession" /\ ev[2] = "ok")
    THEN Null
  ELSE cur

\* The identifier that the adopted one replaced.
Replaced(cur, ev) ==
  IF Adopted(scen.adopted, ev) = scen.adopted THEN cur
  ELSE IF Adopted(scen.adopted, ev) = Null THEN Null
  ELSE sessionId

\* Whether a session has been set up and not given up since by a switch to
\* Stateless: by a session initialization that succeeded, or by a session
\* send whose response carried an identifier.
Established(cur, ev) ==
  IF ev[1] = "handleModeChange" /\ ev[2] = "stateless" THEN FALSE
  ELSE IF Mounted /\ ev[1] = "createSession" /\ ev[2] = "ok" THEN TRUE
  ELSE IF Mounted /\ ev[1] = "sendMessage" /\ ev[2] = "ok"
          /\ ev[3] = "session" /\ ev[4] # Null THEN TRUE
  ELSE cur

\* Repeated selection of one mode, with nothing in between but the
\* createSession requests of those selections resolving: "t1", "t2" after
\* one, two selections of Stateless; "s1", "s2" after one, two selections of
\* Session (the first made with no request pending), then "s1d", "s2a",
\* "s2d" as their initializations succeed.
Repeated(k, ev, quiet) ==
  IF Neutral(ev) THEN k
  ELSE IF Matches(<<"handleModeChange", "stateless">>, ev)
    THEN IF k = "t1" THEN "t2" ELSE "t1"
  ELSE IF Matches(<<"handleModeChange", "session">>, ev)
    THEN IF k = "s1" THEN "s2"
         ELSE IF k = "s1d" THEN "s2a"
         ELSE IF quiet THEN "s1" ELSE "off"
  ELSE IF Matches(<<"createSession", "ok">>, ev)
    THEN IF k = "s1" THEN "s1d"
         ELSE IF k = "s2" THEN "s2a"
         ELSE IF k = "s2a" THEN "s2d"
         ELSE "off"
  ELSE "off"

\* After a send has failed on the mounted page: the endpoint a submit goes
\* to in that state, kept while nothing but typing happens; "retried" once
\* the next submit has been accepted.
FailedAt(cur, ev, endpoint, mounted) ==
  IF Matches(<<"sendMessage", "fail">>, ev)
    THEN IF mounted THEN endpoint ELSE Null
  ELSE IF Neutral(ev) THEN cur
  ELSE IF Matches(<<"handleSubmit", "accepted">>, ev) /\ cur # Null
    THEN "retried"
  ELSE Null

\* Whether a createSession or sendMessage request has been dispatched.
Requested(cur, ev) ==
  \/ cur
  \/ Matches(<<"handleSubmit", "accepted">>, ev)
  \/ Matches(<<"handleModeChange", "session">>, ev)
  \/ Matches(<<"getCurrentUser", "ok">>, ev)

Observe(ev) ==
  /\ lastOp' = ev
  /\ scen' = [e10 |-> Advance(scen.e10, Scenario10, ev),
              e11 |-> Advance(scen.e11, Scenario11, ev),
              e12 |-> AdvanceFrom(scen.e12, Scenario12, ev),
              e25 |-> AdvanceFrom(scen.e25, Scenario25, ev),
              e17 |-> Repeated(scen.e17, ev,
                               inits = <<>> /\ sends = <<>> /\ authPc = "done"),
              failedAt |-> FailedAt(scen.failedAt, ev,
                                    Endpoint(SendMode, sessionId), Mounted),
              requested |-> Requested(scen.requested, ev),
              adopted |-> Adopted(scen.adopted, ev),
              replaced |-> Replaced(scen.replaced, ev),
              established |-> Established(scen.established, ev)]

\* ------------------------------------------------------------------ Init
Init ==
  /\ view \in Views
  /\ token \in BOOLEAN
  /\ route = "chat"
  /\ authPc = "mount"
  /\ user = FALSE
  /\ sessionId = Null
  /\ currentMode = "session"
  /\ messages = <<>>
  /\ inputMessage = <<>>
  /\ isLoading = FALSE
  /\ inits = <<>>
  /\ sends = <<>>
  /\ lastOp = <<"mount">>
  /\ profileLoading = TRUE
  /\ successMessage = ""
  /\ errorMessage = ""
  /\ timers = <<>>
  /\ requests = <<>>
  /\ scen = [e10 |-> 0, e11 |-> 0, e12 |-> 0, e25 |-> 0, e17 |-> "off", failedAt |-> Null,
             requested |-> FALSE, adopted |-> Null, replaced |-> Null,
             established |-> FALSE]

\* --------------------------------------------------------------- actions
\* useEffect(() => { checkAuth(); }, []) up to the current-user fetch.
CheckAuth ==
  /\ UNCHANGED profileVars
  /\ authPc = "mount"
  /\ IF ~token
       THEN /\ route' = "login"
            /\ authPc' = "done"
            /\ Observe(<<"checkAuth", "noToken">>)
       ELSE /\ authPc' = "fetching"
            /\ route' = route
            /\ Observe(<<"checkAuth", "dispatched">>)
  /\ UNCHANGED << view, token, user, sessionId, currentMode, messages,
                  inputMessage, isLoading, inits, sends >>

\* checkAuth after authApi.getCurrentUser resolved: setUser, then
\* initSession up to the createSession fetch.
GetCurrentUserOk ==
  /\ UNCHANGED profileVars
  /\ authPc = "fetching"
  /\ authPc' = "done"
  /\ user' = IF Mounted THEN TRUE ELSE user
  /\ inits' = DispatchInit(inits, "mount")
  /\ Observe(<<"getCurrentUser", "ok">>)
  /\ UNCHANGED << view, token, route, sessionId, currentMode, messages,
                  inputMessage, isLoading, sends >>

\* checkAuth's catch block.
GetCurrentUserFail ==
  /\ UNCHANGED profileVars
  /\ authPc = "fetching"
  /\ authPc' = "done"
  /\ token' = FALSE
  /\ route' = "login"
  /\ Observe(<<"getCurrentUser", "fail">>)
  /\ UNCHANGED << view, user, sessionId, currentMode, messages,
                  inputMessage, isLoading, inits, sends >>

\* initSession after chatApi.createSession resolved with session_id = id.
CreateSessionOk(i, id) ==
  /\ UNCHANGED profileVars
  /\ i \in DOMAIN inits
  /\ inits' = Remove(inits, i)
  /\ IF Mounted
       THEN /\ sessionId' = id
            /\ messages' = TranscriptAfterInit(messages)
       ELSE UNCHANGED << sessionId, messages >>
  /\ Observe(<<"createSession", "ok", inits[i].origin, inits[i].latest, id>>)
  /\ UNCHANGED << view, token, route, authPc, user, currentMode,
                  inputMessage, isLoading, sends >>

\* initSession's catch block.
CreateSessionFail(i, status) ==
  /\ UNCHANGED profileVars
  /\ i \in DOMAIN inits
  /\ inits' = Remove(inits, i)
  /\ IF Mounted
       THEN /\ sessionId' = SessionAfterInitFailure(sessionId)
            /\ messages' = showError(messages, InitErrorText)
       ELSE UNCHANGED << sessionId, messages >>
  /\ token' = CredentialAfterInitFailure(token)
  /\ Observe(<<"createSession", "fail", inits[i].origin, inits[i].latest, status>>)
  /\ UNCHANGED << view, route, authPc, user, currentMode,
                  inputMessage, isLoading, sends >>

\* onChange={(e) => setInputMessage(e.target.value)}
OnChange(text) ==
  /\ UNCHANGED profileVars
  /\ Mounted
  /\ authPc # "mount"
  /\ text # inputMessage
  /\ inputMessage' = text
  /\ Observe(<<"onChange">>)
  /\ UNCHANGED << view, token, route, authPc, user, sessionId, currentMode,
                  messages, isLoading, inits, sends >>

\* handleSubmit up to the fetch of chatApi.sendMessage.
HandleSubmit ==
  /\ UNCHANGED profileVars
  /\ Mounted
  /\ authPc # "mount"
  /\ IF SubmitRejected(inputMessage, isLoading)
       THEN /\ Observe(<<"handleSubmit", "rejected",
                         IF isLoading THEN "loading" ELSE "empty">>)
            /\ UNCHANGED << inputMessage, messages, isLoading, sends >>
       ELSE /\ Len(messages) + PendingAppends + 2 <= MaxMsgs
            /\ inputMessage' = <<>>
            /\ messages' = addMessage(messages, "user", Str(Trim(inputMessage)), FALSE)
            /\ isLoading' = LoadingOnSubmit(isLoading)
            /\ sends' = Append(sends,
                 [mode |-> SendMode,
                  sessionId |-> sessionId,
                  endpoint |-> Endpoint(SendMode, sessionId),
                  message |-> Str(Trim(inputMessage)),
                  auth |-> token])
            /\ Observe(<<"handleSubmit", "accepted", Str(Trim(inputMessage))>>)
  /\ UNCHANGED << view, token, route, authPc, user, sessionId, currentMode, inits >>

\* handleSubmit after chatApi.sendMessage resolved with
\* { response: text, session_id: sid } (Null: no session_id).
SendMessageOk(i, sid, text) ==
  /\ UNCHANGED profileVars
  /\ i \in DOMAIN sends
  /\ sends' = Remove(sends, i)
  /\ IF Mounted
       THEN /\ sessionId' = AdoptSession(sends[i].mode, sid, sessionId)
            /\ messages' = addMessage(messages, "assistant", text, TRUE)
            /\ isLoading' = LoadingOnSettle(isLoading)
       ELSE UNCHANGED << sessionId, messages, isLoading >>
  /\ Observe(<<"sendMessage", "ok", sends[i].mode, sid, text, sends[i].message>>)
  /\ UNCHANGED << view, token, route, authPc, user, currentMode,
                  inputMessage, inits >>

\* handleSubmit's catch and finally blocks.
SendMessageFail(i, f) ==
  /\ UNCHANGED profileVars
  /\ i \in DOMAIN sends
  /\ sends' = Remove(sends, i)
  /\ IF Mounted
       THEN /\ messages' = showError(messages, ErrorMessage(f))
            /\ sessionId' = SessionAfterSendFailure(sessionId)
            /\ isLoading' = LoadingOnSettle(isLoading)
       ELSE UNCHANGED << messages, sessionId, isLoading >>
  /\ Observe(<<"sendMessage", "fail", sends[i].mode, ErrorMessage(f),
               f.kind, f.detail, f.status, sends[i].message>>)
  /\ UNCHANGED << view, token, route, authPc, user, currentMode,
                  inputMessage, inits >>

\* handleModeChange(mode), up to the createSession fetch when mode = 'session'.
HandleModeChange(mode) ==
  /\ UNCHANGED profileVars
  /\ view = "frontend"
  /\ Mounted
  /\ authPc # "mount"
  /\ PendingAppends + 1 <= MaxMsgs
  /\ currentMode' = mode
  /\ IF mode = "session"
       THEN /\ PendingAppends < MaxInits
            /\ messages' = ClearedTranscript(messages)
            /\ inits' = DispatchInit(inits, "switch")
            /\ sessionId' = sessionId
       ELSE /\ messages' = addMessage(ClearedTranscript(messages), "assistant",
                                      StatelessText, FALSE)
            /\ sessionId' = SessionAfterStateless(sessionId)
            /\ inits' = inits
  /\ Observe(<<"handleModeChange", mode,
               IF sessionId # Null THEN "handle" ELSE "nohandle",
               IF messages # <<>> THEN "entries" ELSE "empty">>)
  /\ UNCHANGED << view, token, route, authPc, user, inputMessage, isLoading, sends >>

\* handleLogout
HandleLogout ==
  /\ UNCHANGED profileVars
  /\ view = "frontend"
  /\ Mounted
  /\ authPc # "mount"
  /\ token' = FALSE
  /\ route' = "login"
  /\ Observe(<<"handleLogout">>)
  /\ UNCHANGED << view, authPc, user, sessionId, currentMode, messages,
                  inputMessage, isLoading, inits, sends >>

Next ==
  \/ CheckAuth
  \/ GetCurrentUserOk
  \/ GetCurrentUserFail
  \/ \E i \in DOMAIN inits, id \in Ids : CreateSessionOk(i, id)
  \/ \E i \in DOMAIN inits, status \in InitFailures : CreateSessionFail(i, status)
  \/ \E text \in InputTexts : OnChange(text)
  \/ HandleSubmit
  \/ \E i \in DOMAIN sends, sid \in Ids \cup {Null}, text \in ReplyTexts :
       SendMessageOk(i, sid, text)
  \/ \E i \in DOMAIN sends, f \in SendFailures : SendMessageFail(i, f)
  \/ \E mode \in Modes : HandleModeChange(mode)
  \/ HandleLogout

Spec == Init /\ [][Next]_vars

\* The fetch of some pending chatApi.sendMessage call resolves or rejects.
SendSettles ==
  \/ \E i \in DOMAIN sends, sid \in Ids \cup {Null}, text \in ReplyTexts :
       SendMessageOk(i, sid, text)
  \/ \E i \in DOMAIN sends, f \in SendFailures : SendMessageFail(i, f)

\* The transport eventually resolves or rejects every send.
LiveSpec == Spec /\ WF_vars(SendSettles)

TypeOK ==
  /\ view \in Views
  /\ token \in BOOLEAN
  /\ route \in {"chat", "login"}
  /\ authPc \in {"mount", "fetching", "done"}
  /\ user \in BOOLEAN
  /\ sessionId \in Ids \cup {Null}
  /\ currentMode \in Modes
  /\ Len(messages) <= MaxMsgs
  /\ inputMessage \in InputTexts
  /\ isLoading \in BOOLEAN
  /\ Len(inits) <= MaxInits

\* ============================================================ Profile page
\* pages/Profile.tsx (both copies agree on the handlers modelled here).
\* Most 5000 ms timers pending at once.
MaxTimers == 3
\* Most profileApi requests in flight at once.
MaxRequests == 2

UpdatedText == "Profile updated successfully!"
PasswordChangedText == "Password changed successfully!"
LoadFailedText == "Failed to load profile"
UpdateFailedText == "Failed to update profile"
PasswordFailedText == "Failed to change password"
DeleteFailedText == "Failed to delete account"
MismatchText == "New passwords do not match"
TooShortText == "Password must be at least 6 characters"

\* The detail of an error body; "" when it carries none.
ProfileDetails == {"", "Incorrect password"}
\* What prompt() returns: null on Cancel, else the text typed.
PromptAnswers == {Null, "DELETE", "delete", " DELETE"}
\* What handleChangePassword finds in passwordData.
PasswordChecks == {"mismatch", "short", "valid"}

ProfileMounted == route = "profile"

\* profileApi.*: the message of the Error thrown on a status that is not ok.
ProfileErrorMessage(detail, fallback) == IF detail # "" THEN detail ELSE fallback

\* Mutation: any answer to the prompt confirms.
DeleteConfirmed_AnyText(accepted, typed) == accepted /\ typed # Null

\* handleDeleteAccount: confirm() accepted and prompt() answered "DELETE".
DeleteConfirmed(accepted, typed) == accepted /\ typed = "DELETE"

\* Timers that requests in flight may still start.
PendingTimers ==
  Len(timers) + Len(requests) + (IF authPc = "fetching" THEN 1 ELSE 0)

\* showSuccess(message)
showSuccess(message) ==
  /\ successMessage' = IF ProfileMounted THEN message ELSE successMessage
  /\ errorMessage' = IF ProfileMounted THEN "" ELSE errorMessage
  /\ timers' = Append(timers, "success")

\* showError(message) of the Profile page
showProfileError(message) ==
  /\ errorMessage' = IF ProfileMounted THEN message ELSE errorMessage
  /\ successMessage' = IF ProfileMounted THEN "" ELSE successMessage
  /\ timers' = Append(timers, "error")

ProfileInit ==
  /\ view \in Views
  /\ token \in BOOLEAN
  /\ route = "profile"
  /\ authPc = "mount"
  /\ user = FALSE
  /\ sessionId = Null
  /\ currentMode = "session"
  /\ messages = <<>>
  /\ inputMessage = <<>>
  /\ isLoading = FALSE
  /\ inits = <<>>
  /\ sends = <<>>
  /\ lastOp = <<"mount">>
  /\ profileLoading = TRUE
  /\ successMessage = ""
  /\ errorMessage = ""
  /\ timers = <<>>
  /\ requests = <<>>
  /\ scen = [e10 |-> 0, e11 |-> 0, e12 |-> 0, e25 |-> 0, e17 |-> "off",
             failedAt |-> Null, requested |-> FALSE, adopted |-> Null,
             replaced |-> Null, established |-> FALSE]

\* useEffect(() => { checkAuth(); }, []) up to the getProfile fetch.
ProfileCheckAuth ==
  /\ ProfileMounted
  /\ authPc = "mount"
  /\ IF ~token
       THEN /\ route' = "login"
            /\ authPc' = "done"
            /\ lastOp' = <<"checkAuth", "noToken">>
       ELSE /\ authPc' = "fetching"
            /\ route' = route
            /\ lastOp' = <<"checkAuth", "dispatched">>
  /\ UNCHANGED << view, token, user >>
  /\ UNCHANGED profileVars
  /\ UNCHANGED chatVars

\* loadProfile after profileApi.getProfile resolved.
LoadProfileOk ==
  /\ authPc = "fetching"
  /\ authPc' = "done"
  /\ user' = IF ProfileMounted THEN TRUE ELSE user
  /\ profileLoading' = IF ProfileMounted THEN FALSE ELSE profileLoading
  /\ lastOp' = <<"loadProfile", "ok">>
  /\ UNCHANGED << view, token, route, successMessage, errorMessage, timers, requests >>
  /\ UNCHANGED chatVars

\* loadProfile's catch and finally blocks.
LoadProfileFail ==
  /\ authPc = "fetching"
  /\ authPc' = "done"
  /\ showProfileError(LoadFailedText)
  /\ profileLoading' = IF ProfileMounted THEN FALSE ELSE profileLoading
  /\ lastOp' = <<"loadProfile", "fail">>
  /\ UNCHANGED << view, token, route, user, requests >>
  /\ UNCHANGED chatVars

\* handleUpdateProfile up to the updateProfile fetch.
HandleUpdateProfile ==
  /\ ProfileMounted
  /\ ~profileLoading
  /\ Len(requests) < MaxRequests
  /\ PendingTimers < MaxTimers
  /\ requests' = Append(requests, "update")
  /\ lastOp' = <<"handleUpdateProfile">>
  /\ UNCHANGED << view, token, route, authPc, user,
                  profileLoading, successMessage, errorMessage, timers >>
  /\ UNCHANGED chatVars

\* handleUpdateProfile after profileApi.updateProfile resolved.
UpdateProfileOk(i) ==
  /\ i \in DOMAIN requests
  /\ requests[i] = "update"
  /\ requests' = Remove(requests, i)
  /\ showSuccess(UpdatedText)
  /\ lastOp' = <<"updateProfile", "ok">>
  /\ UNCHANGED << view, token, route, authPc, user, profileLoading >>
  /\ UNCHANGED chatVars

\* handleUpdateProfile's catch block.
UpdateProfileFail(i, detail) ==
  /\ i \in DOMAIN requests
  /\ requests[i] = "update"
  /\ requests' = Remove(requests, i)
  /\ showProfileError(ProfileErrorMessage(detail, UpdateFailedText))
  /\ lastOp' = <<"updateProfile", "fail">>
  /\ UNCHANGED << view, token, route, authPc, user, profileLoading >>
  /\ UNCHANGED chatVars

\* handleChangePassword up to its return or the changePassword fetch.
HandleChangePassword(check) ==
  /\ ProfileMounted
  /\ ~profileLoading
  /\ PendingTimers < MaxTimers
  /\ IF check = "mismatch"
       THEN showProfileError(MismatchText) /\ requests' = requests
     ELSE IF check = "short"
       THEN showProfileError(TooShortText) /\ requests' = requests
     ELSE /\ Len(requests) < MaxRequests
          /\ requests' = Append(requests, "password")
          /\ UNCHANGED << successMessage, errorMessage, timers >>
  /\ lastOp' = <<"handleChangePassword", check>>
  /\ UNCHANGED << view, token, route, authPc, user, profileLoading >>
  /\ UNCHANGED chatVars

\* handleChangePassword after profileApi.changePassword resolved.
ChangePasswordOk(i) ==
  /\ i \in DOMAIN requests
  /\ requests[i] = "password"
  /\ requests' = Remove(requests, i)
  /\ showSuccess(PasswordChangedText)
  /\ lastOp' = <<"changePassword", "ok">>
  /\ UNCHANGED << view, token, route, authPc, user, profileLoading >>
  /\ UNCHANGED chatVars

\* handleChangePassword's catch block.
ChangePasswordFail(i, detail) ==
  /\ i \in DOMAIN requests
  /\ requests[i] = "password"
  /\ requests' = Remove(requests, i)
  /\ showProfileError(ProfileErrorMessage(detail, PasswordFailedText))
  /\ lastOp' = <<"changePassword", "fail">>
  /\ UNCHANGED << view, token, route, authPc, user, profileLoading >>
  /\ UNCHANGED chatVars

\* handleDeleteAccount up to its return or the deleteAccount fetch;
\* prompt() is shown only when confirm() was accepted.
HandleDeleteAccount(accepted, typed) ==
  /\ ProfileMounted
  /\ ~profileLoading
  /\ accepted \/ typed = Null
  /\ IF DeleteConfirmed(accepted, typed)
       THEN /\ Len(requests) < MaxRequests
            /\ PendingTimers < MaxTimers
            /\ requests' = Append(requests, "delete")
       ELSE requests' = requests
  /\ lastOp' = <<"handleDeleteAccount", IF accepted THEN "accepted" ELSE "declined", typed>>
  /\ UNCHANGED << view, token, route, authPc, user,
                  profileLoading, successMessage, errorMessage, timers >>
  /\ UNCHANGED chatVars

\* handleDeleteAccount after profileApi.deleteAccount resolved.
DeleteAccountOk(i) ==
  /\ i \in DOMAIN requests
  /\ requests[i] = "delete"
  /\ requests' = Remove(requests, i)
  /\ token' = FALSE
  /\ route' = "login"
  /\ lastOp' = <<"deleteAccount", "ok">>
  /\ UNCHANGED << view, authPc, user,
                  profileLoading, successMessage, errorMessage, timers >>
  /\ UNCHANGED chatVars

\* handleDeleteAccount's catch block.
DeleteAccountFail(i, detail) ==
  /\ i \in DOMAIN requests
  /\ requests[i] = "delete"
  /\ requests' = Remove(requests, i)
  /\ showProfileError(ProfileErrorMessage(detail, DeleteFailedText))
  /\ lastOp' = <<"deleteAccount", "fail">>
  /\ UNCHANGED << view, token, route, authPc, user, profileLoading >>
  /\ UNCHANGED chatVars

\* The oldest pending timer fires (all timers run 5000 ms, so they fire in
\* the order they were started): setSuccessMessage('') or setErrorMessage('').
TimerFires ==
  /\ timers # <<>>
  /\ timers' = Tail(timers)
  /\ IF Head(timers) = "success"
       THEN /\ successMessage' = IF ProfileMounted THEN "" ELSE successMessage
            /\ errorMessage' = errorMessage
       ELSE /\ errorMessage' = IF ProfileMounted THEN "" ELSE errorMessage
            /\ successMessage' = successMessage
  /\ lastOp' = <<"timer", Head(timers)>>
  /\ UNCHANGED << view, token, route, authPc, user, profileLoading, requests >>
  /\ UNCHANGED chatVars

\* The Logout button of the header (ict_mahagedara/src/pages/Profile.tsx).
ProfileLogout ==
  /\ view = "root"
  /\ ProfileMounted
  /\ ~profileLoading
  /\ token' = FALSE
  /\ route' = "login"
  /\ lastOp' = <<"logout">>
  /\ UNCHANGED << view, authPc, user >>
  /\ UNCHANGED profileVars
  /\ UNCHANGED chatVars

ProfileNext ==
  \/ ProfileCheckAuth
  \/ LoadProfileOk
  \/ LoadProfileFail
  \/ HandleUpdateProfile
  \/ \E i \in DOMAIN requests : UpdateProfileOk(i)
  \/ \E i \in DOMAIN requests, detail \in ProfileDetails : UpdateProfileFail(i, detail)
  \/ \E check \in PasswordChecks : HandleChangePassword(check)
  \/ \E i \in DOMAIN requests : ChangePasswordOk(i)
  \/ \E i \in DOMAIN requests, detail \in ProfileDetails : ChangePasswordFail(i, detail)
  \/ \E accepted \in BOOLEAN, typed \in PromptAnswers : HandleDeleteAccount(accepted, typed)
  \/ \E i \in DOMAIN requests : DeleteAccountOk(i)
  \/ \E i \in DOMAIN requests, detail \in ProfileDetails : DeleteAccountFail(i, detail)
  \/ TimerFires
  \/ ProfileLogout

ProfileSpec == ProfileInit /\ [][ProfileNext]_vars

\* ================================================================ claims

\* C1: a submit attempted while isLoading is true is rejected: the
\* transcript and isLoading stay as they were and no send request is
\* dispatched (nor is the typed text or the session identifier touched).
C1_RejectedWhileLoading ==
  [][ (isLoading /\ lastOp'[1] = "handleSubmit") =>
        /\ messages' = messages
        /\ isLoading' = isLoading
        /\ sends' = sends
        /\ inputMessage' = inputMessage
        /\ sessionId' = sessionId ]_vars

\* A submit of a non-empty text was turned away while a send was in flight.
C1_Witness ==
  /\ lastOp = <<"handleSubmit", "rejected", "loading">>
  /\ Trim(inputMessage) # <<>>
  /\ isLoading
  /\ Len(sends) = 1

\* C2: at most one send-message request is in flight, and while the view
\* is mounted isLoading is true exactly while one is.
C2_OneSendInFlight ==
  /\ Len(sends) <= 1
  /\ Mounted => (isLoading <=> Len(sends) = 1)

\* An accepted submit has just dispatched the one request in flight.
C2_Witness ==
  /\ lastOp[1] = "handleSubmit"
  /\ lastOp[2] = "accepted"
  /\ isLoading
  /\ Len(sends) = 1

\* C3: when a submit has completed, by a response or by a failure, in the
\* mounted view, isLoading is false.
C3_LoadingResetOnCompletion ==
  (Mounted /\ lastOp[1] = "sendMessage") => ~isLoading

\* A send has just failed and the flag is down.
C3_Witness ==
  /\ Mounted
  /\ lastOp[1] = "sendMessage"
  /\ lastOp[2] = "fail"
  /\ ~isLoading

\* C4: the session identifier is held if and only if the mode is Session
\* and a session has been set up (and not given up since by a switch to
\* Stateless); in particular it is never held in Stateless mode.
C4_HandleIffSessionInitialized ==
  (view = "frontend" /\ Mounted) =>
    ((sessionId # Null) <=> (currentMode = "session" /\ scen.established))

\* C5: immediately after every mode switch the transcript holds nothing
\* from before the switch: it is empty after a switch to Session, and after
\* a switch to Stateless it is the emptied transcript plus the one entry
\* the switch itself appends.
C5_TranscriptClearedBySwitch ==
  lastOp[1] = "handleModeChange" =>
    IF lastOp[2] = "session" THEN messages = <<>>
    ELSE SubSeq(messages, 1, Len(messages) - 1) = <<>>

\* A switch to Session has just emptied a transcript that held entries.
C5_Witness ==
  /\ lastOp[1] = "handleModeChange"
  /\ lastOp[2] = "session"
  /\ lastOp[4] = "entries"
  /\ messages = <<>>

\* C6: a switch to Session mode ends, when its createSession settles, with
\* the identifier set and a welcome entry appended, or with no identifier
\* held and an error entry appended.
C6_SessionSwitchOutcome ==
  ( /\ view = "frontend" /\ Mounted /\ currentMode = "session"
    /\ lastOp[1] = "createSession" /\ lastOp[3] = "switch"
    /\ lastOp[4] = "latest" ) =>
    /\ messages # <<>>
    /\ IF lastOp[2] = "ok"
         THEN /\ sessionId = lastOp[5]
              /\ messages[Len(messages)] = Entry("assistant", WelcomeText, FALSE)
         ELSE /\ sessionId = Null
              /\ messages[Len(messages)] =
                   Entry("assistant", ErrorPrefix \o InitErrorText, FALSE)

\* C7: a switch to Stateless mode leaves no session identifier and a
\* transcript of exactly one entry, the informational one.
C7_StatelessSwitch ==
  (lastOp[1] = "handleModeChange" /\ lastOp[2] = "stateless") =>
    /\ sessionId = Null
    /\ messages = << Entry("assistant", StatelessText, FALSE) >>

\* A switch to Stateless has just dropped an identifier and a transcript.
C7_Witness ==
  /\ lastOp = <<"handleModeChange", "stateless", "handle", "entries">>
  /\ sessionId = Null
  /\ Len(messages) = 1

\* C8: in Session mode, once the response of a session send has carried an
\* identifier other than the stored one, that identifier is the stored one
\* and every send submitted from then on goes to its session endpoint,
\* until a mode switch or a session initialization sets the handle again.
C8_SendsTargetAdoptedSession ==
  scen.adopted # Null =>
    /\ sessionId = scen.adopted
    /\ (lastOp[1] = "handleSubmit" /\ lastOp[2] = "accepted") =>
         /\ sends[Len(sends)].sessionId = scen.adopted
         /\ sends[Len(sends)].endpoint = "/chat/session/" \o scen.adopted

\* The stored identifier was S1, a response carried S2, and the next
\* message has just been sent to S2.
C8_Witness ==
  /\ scen.adopted = "S2"
  /\ scen.replaced = "S1"
  /\ lastOp[1] = "handleSubmit"
  /\ lastOp[2] = "accepted"
  /\ Len(sends) = 1
  /\ sends[1].endpoint = "/chat/session/S2"

\* C9: a send made in Stateless mode goes to the stateless endpoint, and
\* whatever its response or failure carries, and whatever the mode is by
\* then, its completion leaves the session identifier as it was.
C9_StatelessSendKeepsHandle ==
  /\ [](\A i \in DOMAIN sends :
          sends[i].mode = "stateless" => sends[i].endpoint = "/chat/stateless")
  /\ [][ (lastOp'[1] = "sendMessage" /\ lastOp'[3] = "stateless") =>
           sessionId' = sessionId ]_vars

\* The response of a stateless send carried an identifier, which was not
\* stored.
C9_Witness ==
  /\ Mounted
  /\ lastOp[1] = "sendMessage"
  /\ lastOp[2] = "ok"
  /\ lastOp[3] = "stateless"
  /\ lastOp[4] = "S1"
  /\ sessionId # "S1"

\* Roles and texts of a transcript, without the formatting flags.
Shape(m) == [i \in DOMAIN m |-> <<m[i].role, m[i].content>>]

\* C10 as stated: after initializeSession succeeded with "S1" and
\* submit("hello") succeeded with "S1" and "Hi!", the transcript is exactly
\* [User:"hello", Assistant:"Hi!"].
C10_AsStated ==
  scen.e10 = Len(Scenario10) =>
    Shape(messages) = << <<"user", "hello">>, <<"assistant", "Hi!">> >>

\* C10 as amended: in the mode-aware view the welcome entry that
\* initializeSession appended comes first, so the transcript is exactly
\* [Assistant:welcome, User:"hello", Assistant:"Hi!"]; in the mode-less
\* view, which appends no welcome entry, it is [User:"hello",
\* Assistant:"Hi!"].
C10_EndToEndTranscript ==
  scen.e10 = Len(Scenario10) =>
    messages =
      (IF view = "frontend"
         THEN << Entry("assistant", WelcomeText, FALSE) >>
         ELSE << >>)
      \o << Entry("user", "hello", FALSE), Entry("assistant", "Hi!", TRUE) >>

\* The scenario has run to its end in the mode-aware view.
C10_Witness ==
  /\ scen.e10 = Len(Scenario10)
  /\ view = "frontend"
  /\ sessionId = "S1"
  /\ Len(messages) = 3

\* C11: when initializeSession fails, the transcript is exactly the one
\* entry Assistant:"[X] Error: Failed to initialize chat session" and no
\* session identifier is held; a message submitted then still goes to the
\* session endpoint, with no identifier (the path ends in the text of
\* null), and its rejection is handled by the failure path: the error
\* entry follows the user's entry and isLoading is false again.
C11_InitFailureThenSend ==
  /\ scen.e11 = 1 =>
       /\ messages = << Entry("assistant", ErrorPrefix \o InitErrorText, FALSE) >>
       /\ sessionId = Null
  /\ scen.e11 = 2 =>
       /\ Len(sends) = 1
       /\ sends[1].mode = "session"
       /\ sends[1].sessionId = Null
       /\ sends[1].endpoint = "/chat/session/null"
  /\ (scen.e11 = 3 /\ lastOp[1] = "sendMessage") =>
       /\ messages =
            << Entry("assistant", ErrorPrefix \o InitErrorText, FALSE),
               Entry("user", "hello", FALSE),
               Entry("assistant", ErrorPrefix \o lastOp[4], FALSE) >>
       /\ sessionId = Null
       /\ ~isLoading

\* The message sent after the failed initialization has been rejected.
C11_Witness ==
  /\ scen.e11 = 3
  /\ lastOp[6] = "Session not found"
  /\ Len(messages) = 3

\* C12: after a switch to Stateless mode, a submit("2+2?") that fails with
\* a network error leaves the transcript exactly [the informational entry,
\* User:"2+2?", Assistant:"[X] Error: <message of the error>"], in that
\* order.
C12_StatelessSendFailure ==
  (scen.e12 = Len(Scenario12) /\ lastOp[1] = "sendMessage") =>
    messages =
      << Entry("assistant", StatelessText, FALSE),
         Entry("user", "2+2?", FALSE),
         Entry("assistant", ErrorPrefix \o lastOp[4], FALSE) >>

\* The stateless send of "2+2?" has just failed with a network error.
C12_Witness ==
  /\ scen.e12 = Len(Scenario12)
  /\ lastOp[1] = "sendMessage"
  /\ lastOp[5] = "network"
  /\ currentMode = "stateless"
  /\ ~isLoading

\* C13: every successful send appends exactly one Assistant entry holding
\* the response text, flagged as formatted (isMarkdown = TRUE), and leaves
\* the entries before it in place (while the chat page is mounted).
C13_SuccessAppendsFormattedReply ==
  [][ (lastOp'[1] = "sendMessage" /\ lastOp'[2] = "ok" /\ Mounted) =>
        messages' = Append(messages, Entry("assistant", lastOp'[5], TRUE)) ]_vars

\* A reply has just been appended below a user entry.
C13_Witness ==
  /\ lastOp[1] = "sendMessage"
  /\ lastOp[2] = "ok"
  /\ Mounted
  /\ Len(messages) >= 2
  /\ messages[Len(messages)] = Entry("assistant", "Hi!", TRUE)
  /\ messages[Len(messages) - 1].role = "user"

\* C14: every failed send (the fetch rejects or the status is not ok)
\* appends exactly one Assistant entry whose content is the error prefix
\* followed by the message of the failure (the detail of the error body
\* when there is one), flagged as plain text (while the page is mounted).
C14_FailureAppendsPlainError ==
  [][ (lastOp'[1] = "sendMessage" /\ lastOp'[2] = "fail" /\ Mounted) =>
        /\ messages' = Append(messages,
                         Entry("assistant", ErrorPrefix \o lastOp'[4], FALSE))
        /\ lastOp'[4] # ""
        /\ (lastOp'[5] = "status" /\ lastOp'[6] # "") => lastOp'[4] = lastOp'[6] ]_vars

\* An error entry carrying the detail of the error body has just been appended.
C14_Witness ==
  /\ lastOp[1] = "sendMessage"
  /\ lastOp[2] = "fail"
  /\ lastOp[6] = "Session not found"
  /\ Mounted
  /\ Len(messages) >= 2
  /\ messages[Len(messages)] =
       Entry("assistant", ErrorPrefix \o "Session not found", FALSE)

\* C15: a submit of a text that is empty after trimming is a no-op: no entry
\* is appended, RequestState (isLoading) is unchanged and no request is
\* dispatched.
C15_EmptySubmitIsNoOp ==
  [][ (lastOp'[1] = "handleSubmit" /\ Trim(inputMessage) = <<>>) =>
        /\ lastOp'[2] = "rejected"
        /\ messages' = messages
        /\ isLoading' = isLoading
        /\ sends' = sends
        /\ inits' = inits ]_vars

\* A text of blanks only has just been submitted while no send was pending.
C15_Witness ==
  /\ lastOp = <<"handleSubmit", "rejected", "empty">>
  /\ inputMessage = <<" ", " ", " ">>
  /\ ~isLoading
  /\ sends = <<>>

\* One update of the transcript: nothing, a clear to empty, or an append at
\* the end that leaves every existing entry in place.
AppendOrClear(before, after) ==
  \/ after = before
  \/ after = <<>>
  \/ /\ Len(after) = Len(before) + 1
     /\ SubSeq(after, 1, Len(before)) = before

C17_RepeatedSelectionIdempotent ==
  /\ scen.e17 = "t2" =>
       /\ messages = << Entry("assistant", StatelessText, FALSE) >>
       /\ sessionId = Null
  /\ scen.e17 = "s2d" =>
       /\ messages = << Entry("assistant", WelcomeText, FALSE) >>
       /\ sessionId # Null

\* C18: when the transport settles every send, every accepted submit is
\* eventually followed by its completion having appended an Assistant entry
\* (the reply, or the prefixed error message) with isLoading back to FALSE,
\* unless the page has been left by a logout meanwhile.
C18_SubmitEventuallyAnswered ==
  (lastOp[1] = "handleSubmit" /\ lastOp[2] = "accepted") ~>
    \/ ~Mounted
    \/ /\ lastOp[1] = "sendMessage"
       /\ ~isLoading
       /\ messages # <<>>
       /\ messages[Len(messages)] =
            IF lastOp[2] = "ok"
              THEN Entry("assistant", lastOp[5], TRUE)
              ELSE Entry("assistant", ErrorPrefix \o lastOp[4], FALSE)

\* A send rejected by the network has been answered with an error entry
\* and the input is usable again.
C18_Witness ==
  /\ Mounted
  /\ lastOp[1] = "sendMessage"
  /\ lastOp[2] = "fail"
  /\ lastOp[5] = "network"
  /\ ~isLoading
  /\ sends = <<>>
  /\ Len(messages) >= 2
  /\ messages[Len(messages) - 1].role = "user"
  /\ messages[Len(messages)] = Entry("assistant", ErrorPrefix \o "Failed to fetch", FALSE)

\* C19: while a network call of the chat (a createSession or a sendMessage
\* request) is in flight the input is disabled, and no submit is accepted
\* before that call has settled.
C19_InputDisabledWhileInFlight ==
  /\ (Mounted /\ (inits # <<>> \/ sends # <<>>)) => InputDisabled
  /\ (lastOp[1] = "handleSubmit" /\ lastOp[2] = "accepted") => inits = <<>>

\* C20: a failed send leaves the mode and the session identifier as they
\* were and does not end the conversation: the next submit of a non-empty
\* text after the failure is accepted and dispatched to the endpoint a
\* submit went to before the failure.
C20_FailureKeepsConversation ==
  [][ /\ (lastOp'[1] = "sendMessage" /\ lastOp'[2] = "fail") =>
           /\ currentMode' = currentMode
           /\ sessionId' = sessionId
      /\ ( /\ scen.failedAt \notin {Null, "retried"}
           /\ lastOp'[1] = "handleSubmit"
           /\ Trim(inputMessage) # <<>> ) =>
           /\ lastOp'[2] = "accepted"
           /\ Len(sends') = 1
           /\ sends'[1].endpoint = scen.failedAt
           /\ sends'[1].message = Str(Trim(inputMessage)) ]_vars

\* The submit after a failed send to the session "S1" has been accepted
\* and goes to that session again.
C20_Witness ==
  /\ scen.failedAt = "retried"
  /\ lastOp[1] = "handleSubmit"
  /\ lastOp[2] = "accepted"
  /\ Len(sends) = 1
  /\ sends[1].endpoint = "/chat/session/S1"
  /\ Len(messages) >= 3
  /\ messages[Len(messages) - 1].role = "assistant"

\* Requests of the conversation in flight.
InFlight == Len(inits) + Len(sends)

\* C21: no retry is automatic: an accepted submit dispatches exactly one
\* sendMessage request, a session initialization (at mount or by a switch
\* to Session) exactly one createSession request, and the settling of a
\* request, a failure included, dispatches nothing; neither does any step
\* that is no submit, initialization or mode switch.
C21_NoAutomaticRetry ==
  [][ IF lastOp'[1] = "handleSubmit" /\ lastOp'[2] = "accepted"
        THEN Len(sends') = Len(sends) + 1 /\ Len(inits') = Len(inits)
      ELSE IF \/ lastOp'[1] = "getCurrentUser" /\ lastOp'[2] = "ok"
              \/ lastOp'[1] = "handleModeChange" /\ lastOp'[2] = "session"
        THEN Len(inits') = Len(inits) + 1 /\ sends' = sends
      ELSE IF lastOp'[1] = "createSession"
        THEN Len(inits') = Len(inits) - 1 /\ sends' = sends /\ authPc' = authPc
      ELSE IF lastOp'[1] = "sendMessage"
        THEN Len(sends') = Len(sends) - 1 /\ inits' = inits /\ authPc' = authPc
      ELSE /\ InFlight' = InFlight
           /\ authPc' = authPc \/ lastOp'[1] \in {"checkAuth", "getCurrentUser"} ]_vars

\* A send has failed and nothing is in flight any more.
C21_Witness ==
  /\ Mounted
  /\ lastOp[1] = "sendMessage"
  /\ lastOp[2] = "fail"
  /\ authPc = "done"
  /\ inits = <<>>
  /\ sends = <<>>
  /\ ~isLoading

\* C22: the fetch of the current user gates the conversation: no
\* createSession or sendMessage request is dispatched before that fetch has
\* succeeded, and when the token is absent or the fetch fails the user is
\* sent to the login page without any such request having been made.
C22_AuthGatesConversation ==
  /\ authPc # "done" => ~scen.requested
  /\ (lastOp = <<"checkAuth", "noToken">> \/ lastOp = <<"getCurrentUser", "fail">>) =>
       /\ route = "login"
       /\ ~scen.requested

\* C23: the stored credential is cleared at logout and whenever a protected
\* request (the current-user fetch, a session creation or a message send)
\* is rejected with status 401.
C23_CredentialLifecycle ==
  /\ lastOp[1] = "handleLogout" => ~token
  /\ (lastOp[1] = "getCurrentUser" /\ lastOp[2] = "fail") => ~token
  /\ (lastOp[1] = "createSession" /\ lastOp[2] = "fail" /\ lastOp[5] = "401") => ~token
  /\ (lastOp[1] = "sendMessage" /\ lastOp[2] = "fail" /\ lastOp[7] = "401") => ~token

\* C24: when the completion of a send has appended its Assistant entry (the
\* reply or the error), the transcript holds the User entry of that submit
\* at an earlier position, whatever happened between the submit and the
\* completion.
C24_ReplyFollowsItsUserEntry ==
  (Mounted /\ lastOp[1] = "sendMessage") =>
    \E j \in 1 .. Len(messages) - 1 :
      messages[j] = Entry("user", lastOp[Len(lastOp)], FALSE)

\* C25: after a switch to Session mode whose initialization succeeded with
\* handle H, the stored identifier stays H until the response to a send
\* submitted after that switch carries another one: with a send in flight
\* that was dispatched before the switch, neither its response nor anything
\* else but a further mode switch changes the identifier.
C25_HandleOfSwitchKept ==
  [][ (Mounted /\ scen.e25 = Len(Scenario25) /\ lastOp'[1] # "handleModeChange") =>
        sessionId' = sessionId ]_vars

\* C26: when two session initializations were in flight at once and both
\* have succeeded, one right after the other, the stored identifier is the
\* one returned for the initialization requested last, whichever response
\* arrived first.
C26_LatestInitializationWins ==
  [][ ( /\ view = "frontend" /\ Mounted /\ currentMode = "session"
        /\ Matches(<<"createSession", "ok">>, lastOp)
        /\ Matches(<<"createSession", "ok">>, lastOp')
        /\ Len(inits) = 1 /\ inits' = <<>>
        /\ lastOp[4] # lastOp'[4] ) =>
        sessionId' = IF lastOp'[4] = "latest" THEN lastOp'[5] ELSE lastOp[5] ]_vars

C28_MountCheckCredential ==
  [][ /\ Matches(<<"createSession", "fail">>, lastOp') =>
           token' = token /\ route' = route
      /\ lastOp'[1] \in {"checkAuth", "getCurrentUser", "createSession"} =>
           /\ token' # token => lastOp' = <<"getCurrentUser", "fail">>
           /\ route' # route =>
                lastOp' \in { <<"getCurrentUser", "fail">>, <<"checkAuth", "noToken">> }
      /\ lastOp' = <<"getCurrentUser", "fail">> => ~token' /\ route' = "login"
      /\ lastOp' = <<"checkAuth", "noToken">> => token' = token /\ route' = "login" ]_vars

\* The mount-time session creation has failed: the credential is still
\* stored and the chat page still shown, with the error entry.
C28_Witness ==
  /\ Matches(<<"createSession", "fail", "mount">>, lastOp)
  /\ token
  /\ route = "chat"
  /\ messages # <<>>
  /\ messages[Len(messages)] = Entry("assistant", ErrorPrefix \o InitErrorText, FALSE)

\* Delete requests in flight.
DeleteCount(reqs) == Cardinality({ i \in DOMAIN reqs : reqs[i] = "delete" })

\* C29: handleDeleteAccount removes the stored credential and redirects to
\* login only if the confirmation dialog was accepted, exactly "DELETE" was
\* typed at the prompt and the delete request succeeded; if either
\* confirmation is declined no request is dispatched, and if the request
\* fails the credential is kept and an error message is shown.
C29_DeleteAccountGuarded ==
  [][ /\ lastOp'[1] = "handleDeleteAccount" =>
           /\ token' = token /\ route' = route
           /\ IF lastOp'[2] = "accepted" /\ lastOp'[3] = "DELETE"
                THEN requests' = Append(requests, "delete")
                ELSE requests' = requests
      /\ DeleteCount(requests') > DeleteCount(requests) =>
           lastOp' = <<"handleDeleteAccount", "accepted", "DELETE">>
      /\ lastOp'[1] = "deleteAccount" =>
           /\ DeleteCount(requests') = DeleteCount(requests) - 1
           /\ IF lastOp'[2] = "ok"
                THEN ~token' /\ route' = "login"
                ELSE /\ token' = token /\ route' = route
                     /\ ProfileMounted => errorMessage' # "" ]_vars

\* The account has been deleted: the credential is gone and the login page
\* is shown.
C29_Witness ==
  /\ lastOp = <<"deleteAccount", "ok">>
  /\ ~token
  /\ route = "login"

\* Whether a timer of this kind is still pending.  A message on display was
\* set by the latest call of its kind (any later call of either kind would
\* have replaced or removed it), so its own timer is the last one of that
\* kind started: a timer that fires while a later one of its kind is
\* pending belongs to an earlier call.
LaterTimerPending(kind, pending) == \E i \in DOMAIN pending : pending[i] = kind

\* C30: a success or error message stays on display until its own timer
\* fires or a newer message replaces it: when a timer removes a message, no
\* timer of that kind started later is pending, i.e. the timer is the one
\* started by the call that set the message.
C30_TimerClearsOwnMessage ==
  [][ (ProfileMounted /\ lastOp'[1] = "timer") =>
        /\ (successMessage # "" /\ successMessage' = "") =>
             ~LaterTimerPending("success", timers')
        /\ (errorMessage # "" /\ errorMessage' = "") =>
             ~LaterTimerPending("error", timers') ]_vars

====
